---- MODULE Spec2Model ----
(***************************************************************************)
(* A model of trop/cli.py: the parameter reconciliation (update_params),   *)
(* the request builder (get_stack_definition), the deploy commands         *)
(* (create / update, wrapped by manage.f) and the event tailer (_events).  *)
(*                                                                         *)
(* Python dicts are insertion ordered; a dict is modelled as a record      *)
(* [keys, val]: keys is the sequence of keys in insertion order and val    *)
(* the mapping.  Python's None is the string "None", which is not one of   *)
(* the parameter values the model draws.                                   *)
(***************************************************************************)
EXTENDS Integers, Sequences, FiniteSets, TLC

VARIABLES
    rc_in,      \* update_params: the arguments (template, params, previous)
    rc_out,     \* update_params: the returned list
    rc_pc,      \* update_params: "call" before the call, "return" after it
    pc,         \* the position of the running command
    error,      \* the exception that ended the command, None if none
    calls,      \* the calls made so far to the clients, the clock and sleep
    clock,      \* the wall clock, in seconds
    now,        \* _events: the session start
    seen,       \* _events: the set of event ids
    status,     \* _events: the StackStatus of this poll
    events,     \* _events: the StackEvents of this poll
    emitted,    \* the lines written by click.echo in _events, in order
    poll,       \* history: the number of polls started
    first,      \* history: for each event id, the first poll that returned it
    args,       \* create / update: the command and its arguments
    s3,         \* the blob store: the body stored under each (bucket, key)
    template_url,    \* get_stack_definition: the URL of the uploaded template
    previous_params, \* get_stack_definition: the previous parameters
    definition, \* get_stack_definition: the request built
    lookup,     \* history: what describe_stacks answered to _parameters
    submitted,  \* history: the create_stack / update_stack calls made
    location,   \* the blob store: the LocationConstraint of the bucket
    publishes,  \* history: the put_object calls that stored a body, in order
    echoed      \* the lines written by click.echo in outputs and parameters

rcVars   == <<rc_in, rc_out, rc_pc>>
tailVars == <<now, seen, status, events, emitted, poll, first>>
ctlVars  == <<pc, error, calls, clock>>
depVars  == <<args, s3, template_url, previous_params, definition, lookup, submitted>>
pubVars  == <<location, publishes>>
qryVars  == <<echoed>>

vars == <<rc_in, rc_out, rc_pc, pc, error, calls, clock,
          now, seen, status, events, emitted, poll, first,
          args, s3, template_url, previous_params, definition, lookup, submitted,
          location, publishes, echoed>>

----------------------------------------------------------------------------
(* Bounds *)

MaxDeclared  == 3    \* longest template.parameters
MaxOverrides == 2    \* most --parameter options on one command line
MaxPolls     == 3    \* most polls of one tail session
MaxEvents    == 2    \* longest list describe_stack_events returns
MaxPublishes == 3    \* most templates stored by successive runs

----------------------------------------------------------------------------
(* Values *)

None   == "None"
Keys   == {"A", "B", "Z"}
Values == {"x", "y"}

Range(s) == {s[i] : i \in DOMAIN s}

SeqsUpTo(S, n) == UNION {[1..m -> S] : m \in 0..n}

NoDup(s) == \A i, j \in DOMAIN s : i # j => s[i] # s[j]

\* template.parameters: a dict, so its keys are distinct and ordered
Templates == {s \in SeqsUpTo(Keys, MaxDeclared) : NoDup(s)}

\* --parameter <key> <value>, multiple=True: a tuple of (str, str) pairs
Overrides == SeqsUpTo(Keys \X Values, MaxOverrides)

\* what _parameters returns: a dict from parameter key to value
Previous == UNION {[D -> Values] : D \in SUBSET Keys}

----------------------------------------------------------------------------
(* Python dicts *)

EmptyDict == [keys |-> <<>>, val |-> [k \in {} |-> None]]

\* as DictSet, but an assignment to a present key moves it to the end
DictSet_MoveToEnd(d, k, v) ==
    LET kept == SelectSeq(d.keys, LAMBDA x : x # k)
    IN  [keys |-> Append(kept, k),
         val  |-> [x \in (DOMAIN d.val) \cup {k} |-> IF x = k THEN v ELSE d.val[x]]]

\* d[k] = v: a present key keeps its position, a new key goes last
DictSet(d, k, v) ==
    IF k \in DOMAIN d.val
    THEN [d EXCEPT !.val[k] = v]
    ELSE [keys |-> Append(d.keys, k), val |-> (k :> v) @@ d.val]

\* {key: None for key in template.parameters}
RECURSIVE DictFromKeys(_)
DictFromKeys(names) ==
    IF names = <<>> THEN EmptyDict
    ELSE DictSet(DictFromKeys(SubSeq(names, 1, Len(names) - 1)),
                 names[Len(names)], None)

\* as DictFromPairs, but the first pair given for a key wins
RECURSIVE DictFromPairs_FirstWins(_)
DictFromPairs_FirstWins(pairs) ==
    IF pairs = <<>> THEN EmptyDict
    ELSE LET d == DictFromPairs_FirstWins(SubSeq(pairs, 1, Len(pairs) - 1))
             k == pairs[Len(pairs)][1]
         IN  IF k \in DOMAIN d.val THEN d ELSE DictSet(d, k, pairs[Len(pairs)][2])

\* {key: value for key, value in params}
RECURSIVE DictFromPairs(_)
DictFromPairs(pairs) ==
    IF pairs = <<>> THEN EmptyDict
    ELSE DictSet(DictFromPairs(SubSeq(pairs, 1, Len(pairs) - 1)),
                 pairs[Len(pairs)][1], pairs[Len(pairs)][2])

\* d.update(other)
RECURSIVE DictUpdate(_, _)
DictUpdate(d, other) ==
    IF other.keys = <<>> THEN d
    ELSE LET n    == Len(other.keys)
             k    == other.keys[n]
             rest == [keys |-> SubSeq(other.keys, 1, n - 1), val |-> other.val]
         IN  DictSet(DictUpdate(d, rest), k, other.val[k])

----------------------------------------------------------------------------
(* update_params *)

\* as Param, but UsePreviousValue tests "key not in previous"
Param_NotInPrevious(key, value, previous) ==
    LET param == [ParameterKey     |-> key,
                  UsePreviousValue |-> (value = None /\ key \notin DOMAIN previous)]
    IN  IF value # None
        THEN [ParameterKey     |-> param.ParameterKey,
              UsePreviousValue |-> param.UsePreviousValue,
              ParameterValue   |-> value]
        ELSE param

\* dict(ParameterKey=key, UsePreviousValue=...), plus ParameterValue when
\* value is not None
Param(key, value, previous) ==
    LET param == [ParameterKey     |-> key,
                  UsePreviousValue |-> (value = None /\ key \in DOMAIN previous)]
    IN  IF value # None
        THEN [ParameterKey     |-> param.ParameterKey,
              UsePreviousValue |-> param.UsePreviousValue,
              ParameterValue   |-> value]
        ELSE param

\* as Skipped, but the test on previous is inverted
Skipped_InPrevious(key, value, previous) == value = None /\ key \in DOMAIN previous

\* if value is None and key not in previous: continue
Skipped(key, value, previous) == value = None /\ key \notin DOMAIN previous

\* the loop over parameters_dict.items()
RECURSIVE ParamsLoop(_, _, _)
ParamsLoop(keys, val, previous) ==
    IF keys = <<>> THEN <<>>
    ELSE LET key   == Head(keys)
             value == val[key]
             rest  == ParamsLoop(Tail(keys), val, previous)
         IN  IF Skipped(key, value, previous) THEN rest
             ELSE <<Param(key, value, previous)>> \o rest

update_params(template, params, previous) ==
    LET parameters_dict == DictUpdate(DictFromKeys(template), DictFromPairs(params))
    IN  ParamsLoop(parameters_dict.keys, parameters_dict.val, previous)

\* the reconciler is not running
RcIdle ==
    /\ rc_in = [template |-> <<>>, params |-> <<>>, previous |-> <<>>]
    /\ rc_out = <<>>
    /\ rc_pc = "idle"

----------------------------------------------------------------------------
(* _events: the event tailer *)

STATUSES == <<
    "CREATE_IN_PROGRESS",
    "CREATE_FAILED",
    "CREATE_COMPLETE",
    "ROLLBACK_IN_PROGRESS",
    "ROLLBACK_FAILED",
    "ROLLBACK_COMPLETE",
    "DELETE_IN_PROGRESS",
    "DELETE_FAILED",
    "DELETE_COMPLETE",
    "UPDATE_IN_PROGRESS",
    "UPDATE_COMPLETE_CLEANUP_IN_PROGRESS",
    "UPDATE_COMPLETE",
    "UPDATE_ROLLBACK_IN_PROGRESS",
    "UPDATE_ROLLBACK_FAILED",
    "UPDATE_ROLLBACK_COMPLETE_CLEANUP_IN_PROGRESS",
    "UPDATE_ROLLBACK_COMPLETE" >>

\* the statuses as words: TLA+ strings have no suffix test, so each status
\* is given as the sequence of its "_"-separated words
Words(s) ==
    CASE s = "CREATE_IN_PROGRESS"   -> <<"CREATE", "IN", "PROGRESS">>
      [] s = "CREATE_FAILED"        -> <<"CREATE", "FAILED">>
      [] s = "CREATE_COMPLETE"      -> <<"CREATE", "COMPLETE">>
      [] s = "ROLLBACK_IN_PROGRESS" -> <<"ROLLBACK", "IN", "PROGRESS">>
      [] s = "ROLLBACK_FAILED"      -> <<"ROLLBACK", "FAILED">>
      [] s = "ROLLBACK_COMPLETE"    -> <<"ROLLBACK", "COMPLETE">>
      [] s = "DELETE_IN_PROGRESS"   -> <<"DELETE", "IN", "PROGRESS">>
      [] s = "DELETE_FAILED"        -> <<"DELETE", "FAILED">>
      [] s = "DELETE_COMPLETE"      -> <<"DELETE", "COMPLETE">>
      [] s = "UPDATE_IN_PROGRESS"   -> <<"UPDATE", "IN", "PROGRESS">>
      [] s = "UPDATE_COMPLETE_CLEANUP_IN_PROGRESS"
                                    -> <<"UPDATE", "COMPLETE", "CLEANUP", "IN", "PROGRESS">>
      [] s = "UPDATE_COMPLETE"      -> <<"UPDATE", "COMPLETE">>
      [] s = "UPDATE_ROLLBACK_IN_PROGRESS"
                                    -> <<"UPDATE", "ROLLBACK", "IN", "PROGRESS">>
      [] s = "UPDATE_ROLLBACK_FAILED"
                                    -> <<"UPDATE", "ROLLBACK", "FAILED">>
      [] s = "UPDATE_ROLLBACK_COMPLETE_CLEANUP_IN_PROGRESS"
                                    -> <<"UPDATE", "ROLLBACK", "COMPLETE", "CLEANUP", "IN", "PROGRESS">>
      [] s = "UPDATE_ROLLBACK_COMPLETE"
                                    -> <<"UPDATE", "ROLLBACK", "COMPLETE">>
      [] OTHER                      -> <<>>

\* as EndsWithComplete, but a substring test: "COMPLETE" in status
EndsWithComplete_Contains(s) == "COMPLETE" \in Range(Words(s))

\* status.endswith('COMPLETE')
EndsWithComplete(s) == Words(s) # <<>> /\ Words(s)[Len(Words(s))] = "COMPLETE"

GraceSeconds == 2
SleepSeconds == 1

\* the events the control plane may hold for the stack: the id is the
\* identity, its fields never change
EventIds == {"e1", "e2", "e3"}

Event(id) ==
    CASE id = "e1" -> [EventId |-> "e1", Timestamp |-> 0,
                       LogicalResourceId |-> "stack", ResourceStatus |-> "CREATE_IN_PROGRESS",
                       ResourceStatusReason |-> "User Initiated"]
      [] id = "e2" -> [EventId |-> "e2", Timestamp |-> 1,
                       LogicalResourceId |-> "bucket", ResourceStatus |-> "CREATE_IN_PROGRESS"]
      [] id = "e3" -> [EventId |-> "e3", Timestamp |-> 4,
                       LogicalResourceId |-> "bucket", ResourceStatus |-> "CREATE_COMPLETE"]

\* the instants at which a session may start
StartTimes == {2, 3, 4}

\* the lists describe_stack_events may return, in any order, repeats included
EventLists == SeqsUpTo(EventIds, MaxEvents)

StackEvents(ids) == [i \in DOMAIN ids |-> Event(ids[i])]

\* as Reversed, but the list is taken as delivered
Reversed_AsDelivered(s) == s

RECURSIVE Reversed(_)
Reversed(s) == IF s = <<>> THEN <<>> ELSE Append(Reversed(Tail(s)), Head(s))

\* the line of one event: "<Timestamp> [ <LogicalResourceId> ] <ResourceStatus>"
\* and " - <reason>" when the event has a reason
Message(event) ==
    LET message == <<event.Timestamp, "[", event.LogicalResourceId, "]", event.ResourceStatus>>
    IN  IF "ResourceStatusReason" \in DOMAIN event
        THEN message \o <<"-", event.ResourceStatusReason>>
        ELSE message

\* as BeforeWindow, but an event exactly at the edge is skipped too
BeforeWindow_Inclusive(timestamp, start) == timestamp <= start - GraceSeconds

\* timestamp < now - timedelta(seconds=2)
BeforeWindow(timestamp, start) == timestamp < start - GraceSeconds

\* as Unseen, but every event is taken as new
Unseen_Always(event_id, sn) == TRUE

\* event_id not in seen
Unseen(event_id, sn) == event_id \notin sn

\* as ForLoop, but seen.add comes before the test of the timestamp
RECURSIVE ForLoop_MarksSkipped(_, _, _, _, _)
ForLoop_MarksSkipped(evs, start, sn, out, n) ==
    IF evs = <<>> THEN [seen |-> sn, emitted |-> out]
    ELSE LET event    == Head(evs)
             event_id == event.EventId
         IN  ForLoop_MarksSkipped(
                 Tail(evs), start, sn \cup {event_id},
                 IF ~BeforeWindow(event.Timestamp, start) /\ Unseen(event_id, sn)
                 THEN Append(out, [event_id |-> event_id,
                                   message  |-> Message(event),
                                   poll     |-> n])
                 ELSE out,
                 n)

\* the body of "for event in reversed(...)": evs is what is left of the
\* reversed list, sn the set seen, out the lines echoed, n the poll
RECURSIVE ForLoop(_, _, _, _, _)
ForLoop(evs, start, sn, out, n) ==
    IF evs = <<>> THEN [seen |-> sn, emitted |-> out]
    ELSE LET event    == Head(evs)
             event_id == event.EventId
         IN  IF BeforeWindow(event.Timestamp, start)
             THEN ForLoop(Tail(evs), start, sn, out, n)
             ELSE ForLoop(Tail(evs), start, sn \cup {event_id},
                          IF Unseen(event_id, sn)
                          THEN Append(out, [event_id |-> event_id,
                                            message  |-> Message(event),
                                            poll     |-> n])
                          ELSE out,
                          n)

\* no tail session is running
TailIdle ==
    /\ now = 0
    /\ seen = {}
    /\ status = None
    /\ events = <<>>
    /\ emitted = <<>>
    /\ poll = 0
    /\ first = [id \in EventIds |-> 0]

\* now = utc.localize(datetime.utcnow()); seen = set()
TailStart ==
    /\ pc = "tail_start"
    /\ now' = clock
    /\ seen' = {}
    /\ calls' = Append(calls, "utcnow")
    /\ pc' = "describe_stacks"
    /\ UNCHANGED <<error, clock, status, events, emitted, poll, first, rcVars, qryVars, pubVars, depVars>>

\* describe_stacks(StackName=name).get('Stacks')[0].get('StackStatus')
DescribeStacks(s) ==
    /\ pc = "describe_stacks"
    /\ poll < MaxPolls
    /\ poll' = poll + 1
    /\ status' = s
    /\ calls' = Append(calls, "describe_stacks")
    /\ pc' = "describe_stack_events"
    /\ UNCHANGED <<error, clock, now, seen, events, emitted, first, rcVars, qryVars, pubVars, depVars>>

\* as DescribeStacksRaises, but the failure is swallowed and the loop goes on
\* to describe_stack_events with the status of the poll before
DescribeStacksRaises_Swallowed ==
    /\ pc = "describe_stacks"
    /\ poll < MaxPolls
    /\ poll' = poll + 1
    /\ calls' = Append(calls, "describe_stacks")
    /\ pc' = "describe_stack_events"
    /\ UNCHANGED <<error, clock, now, seen, status, events, emitted, first, rcVars, qryVars, pubVars, depVars>>

\* describe_stacks raises: the stack does not exist, or another ClientError
DescribeStacksRaises ==
    /\ pc = "describe_stacks"
    /\ poll < MaxPolls
    /\ poll' = poll + 1
    /\ calls' = Append(calls, "describe_stacks")
    /\ error' = "ClientError"
    /\ pc' = "raised"
    /\ UNCHANGED <<clock, now, seen, status, events, emitted, first, rcVars, qryVars, pubVars, depVars>>

\* events = describe_stack_events(StackName=name)
DescribeStackEvents(ids) ==
    /\ pc = "describe_stack_events"
    /\ events' = StackEvents(ids)
    /\ first' = [id \in EventIds |->
                    IF first[id] = 0 /\ id \in Range(ids) THEN poll ELSE first[id]]
    /\ calls' = Append(calls, "describe_stack_events")
    /\ pc' = "for_events"
    /\ UNCHANGED <<error, clock, now, seen, status, emitted, poll, rcVars, qryVars, pubVars, depVars>>

DescribeStackEventsRaises ==
    /\ pc = "describe_stack_events"
    /\ calls' = Append(calls, "describe_stack_events")
    /\ error' = "ClientError"
    /\ pc' = "raised"
    /\ UNCHANGED <<clock, now, seen, status, events, emitted, poll, first, rcVars, qryVars, pubVars, depVars>>

\* for event in reversed(events.get('StackEvents')): ...
ForEvents ==
    /\ pc = "for_events"
    /\ LET r == ForLoop(Reversed(events), now, seen, emitted, poll)
       IN  /\ seen' = r.seen
           /\ emitted' = r.emitted
    /\ pc' = "if_complete"
    /\ UNCHANGED <<error, calls, clock, now, status, events, poll, first, rcVars, qryVars, pubVars, depVars>>

\* as IfComplete, without the break
IfComplete_NoBreak ==
    /\ pc = "if_complete"
    /\ pc' = "sleep"
    /\ UNCHANGED <<error, calls, clock, tailVars, rcVars, qryVars, pubVars, depVars>>

\* as IfComplete, but the loop sleeps once more before it stops
IfComplete_SleepFirst ==
    /\ pc = "if_complete"
    /\ pc' = IF EndsWithComplete(status) /\ "sleep" \in Range(calls)
             THEN "returned" ELSE "sleep"
    /\ UNCHANGED <<error, calls, clock, tailVars, rcVars, qryVars, pubVars, depVars>>

\* if status.endswith('COMPLETE'): break
IfComplete ==
    /\ pc = "if_complete"
    /\ pc' = IF EndsWithComplete(status) THEN "returned" ELSE "sleep"
    /\ UNCHANGED <<error, calls, clock, tailVars, rcVars, qryVars, pubVars, depVars>>

\* time.sleep(1)
Sleep ==
    /\ pc = "sleep"
    /\ clock' = clock + SleepSeconds
    /\ calls' = Append(calls, "sleep")
    /\ pc' = "describe_stacks"
    /\ UNCHANGED <<error, tailVars, rcVars, qryVars, pubVars, depVars>>

\* no command is running
CtlIdle ==
    /\ pc = "idle"
    /\ error = None
    /\ calls = <<>>
    /\ clock = 0


----------------------------------------------------------------------------
(* create / update: manage.f, get_stack_definition, upload_template_to_s3 *)

\* the templates importable from the working directory, by dotted path;
\* a Template has its declared parameters and serialises to json
Modules == [stacks_empty |-> [parameters |-> <<>>],
            stacks_web   |-> [parameters |-> <<"A">>],
            stacks_db    |-> [parameters |-> <<"A", "B">>]]

TemplatePaths == {"stacks_empty", "stacks_web", "stacks_db", "stacks_missing"}

\* _template(path): the attribute the dotted path names; __import__ or
\* getattr raise when there is none
Importable(path) == path \in DOMAIN Modules
_template(path)  == Modules[path]

\* template.to_json(indent=None).encode('utf-8')
ToJson(template) == <<"{Parameters:", template.parameters, "}">>
Encode(text)     == <<"utf-8", text>>

StackNames   == {"web", "db"}
Buckets      == {"templates"}
Capabilities == {"CAPABILITY_IAM", "CAPABILITY_NAMED_IAM"}

\* the --parameter options of the deploy runs
DeployOverrides == {<<>>, << <<"A", "x">> >>, << <<"Z", "y">> >>}

\* as TemplateKey, but the key does not depend on the stack name
TemplateKey_Fixed(stack_name) == <<"stack", ".template">>

\* f'{stack_name}.template'
TemplateKey(stack_name) == <<stack_name, ".template">>

\* f'https://s3-{bucket_location}.amazonaws.com/{template_bucket}/{template_key}'
TemplateUrl(bucket_location, template_bucket, template_key) ==
    <<"https://s3-", bucket_location, ".amazonaws.com/", template_bucket, "/">>
        \o template_key

\* get_bucket_location()['LocationConstraint']: None for us-east-1
Locations == {None, "eu-west-1"}

\* what describe_stacks may answer to _parameters: an exception, or a stack
\* with a status and, when it has parameters, the list of them
ParameterLists == {<<>>,
                   << [ParameterKey |-> "A", ParameterValue |-> "x"] >>,
                   << [ParameterKey |-> "A", ParameterValue |-> "x"],
                      [ParameterKey |-> "B", ParameterValue |-> "y"] >>}

LookupStatuses == {"CREATE_COMPLETE", "UPDATE_IN_PROGRESS", "ROLLBACK_COMPLETE",
                   "DELETE_COMPLETE"}

DescribeAnswers ==
    {[exception |-> "ClientError", code |-> "ValidationError"],
     [exception |-> "ClientError", code |-> "Throttling"],
     [exception |-> "EndpointConnectionError", code |-> None]}
    \cup [StackStatus : LookupStatuses]
    \cup [StackStatus : LookupStatuses, Parameters : ParameterLists]

\* {parameter['ParameterKey']: parameter['ParameterValue'] for parameter in ...}
ParametersDict(list) ==
    DictFromPairs([i \in DOMAIN list |->
                      <<list[i].ParameterKey, list[i].ParameterValue>>]).val

\* _parameters(clients, name): the exception it raises, or the dict it returns
_parameters(answer) ==
    IF "exception" \in DOMAIN answer
    THEN [raises |-> answer.exception, value |-> <<>>]
    ELSE IF answer.StackStatus \in {"DELETE_COMPLETE"}
    THEN [raises |-> "AssertionError", value |-> <<>>]
    ELSE IF "Parameters" \notin DOMAIN answer
    THEN [raises |-> "TypeError", value |-> <<>>]
    ELSE [raises |-> None, value |-> ParametersDict(answer.Parameters)]

\* as Caught, without the AssertionError
Caught_ClientErrorOnly(exception) == exception \in {"ClientError"}

\* except (ClientError, AssertionError)
Caught(exception) == exception \in {"ClientError", "AssertionError"}

\* as StackDefinition, but Capabilities is always set
StackDefinition_AlwaysCapabilities(name, url, parameters, capability) ==
    [StackName    |-> name,
     TemplateURL  |-> url,
     Parameters   |-> parameters,
     Capabilities |-> IF capability # None THEN <<capability>> ELSE <<>>]

\* definition = dict(StackName=..., TemplateURL=..., Parameters=...), plus
\* Capabilities=[capability] when capability is not None
StackDefinition(name, url, parameters, capability) ==
    LET base == [StackName   |-> name,
                 TemplateURL |-> url,
                 Parameters  |-> parameters]
    IN  IF capability # None
        THEN ("Capabilities" :> <<capability>>) @@ base
        ELSE base

\* no deploy is running
DepIdle ==
    /\ args = [command |-> None]
    /\ s3 = <<>>
    /\ template_url = <<>>
    /\ previous_params = <<>>
    /\ definition = <<>>
    /\ lookup = <<>>
    /\ submitted = <<>>
    /\ location = None
    /\ publishes = <<>>
    /\ echoed = <<>>

\* template = _template(template)
LoadTemplate ==
    /\ pc = "template"
    /\ IF Importable(args.template)
       THEN pc' = "put_object" /\ error' = error
       ELSE pc' = "raised" /\ error' = "ImportError"
    /\ UNCHANGED <<calls, clock, tailVars, rcVars, qryVars, pubVars, depVars>>

\* s3_client.put_object(Body=template, Bucket=template_bucket, Key=template_key)
PutObject ==
    /\ pc = "put_object"
    /\ LET at   == <<args.bucket, TemplateKey(args.name)>>
           body == Encode(ToJson(_template(args.template)))
       IN  s3' = [k \in (DOMAIN s3) \cup {at} |-> IF k = at THEN body ELSE s3[k]]
    /\ publishes' = Append(publishes, [name     |-> args.name,
                                       bucket   |-> args.bucket,
                                       template |-> args.template,
                                       url      |-> <<>>])
    /\ calls' = Append(calls, "put_object")
    /\ pc' = "get_bucket_location"
    /\ UNCHANGED <<error, clock, tailVars, rcVars, qryVars, location,
                   args, template_url, previous_params, definition, lookup, submitted>>

PutObjectRaises ==
    /\ pc = "put_object"
    /\ calls' = Append(calls, "put_object")
    /\ error' = "ClientError"
    /\ pc' = "raised"
    /\ UNCHANGED <<clock, tailVars, rcVars, qryVars, pubVars, depVars>>

\* bucket_location = s3_client.get_bucket_location(...)['LocationConstraint']
GetBucketLocation(bucket_location) ==
    /\ pc = "get_bucket_location"
    /\ template_url' = TemplateUrl(bucket_location, args.bucket, TemplateKey(args.name))
    /\ publishes' = [publishes EXCEPT ![Len(publishes)].url = template_url']
    /\ calls' = Append(calls, "get_bucket_location")
    /\ pc' = "parameters"
    /\ UNCHANGED <<error, clock, tailVars, rcVars, qryVars, location,
                   args, s3, previous_params, definition, lookup, submitted>>

GetBucketLocationRaises ==
    /\ pc = "get_bucket_location"
    /\ calls' = Append(calls, "get_bucket_location")
    /\ error' = "ClientError"
    /\ pc' = "raised"
    /\ UNCHANGED <<clock, tailVars, rcVars, qryVars, pubVars, depVars>>

\* the rest of get_stack_definition: the try around _parameters, then the
\* definition
LookupAndBuild(answer) ==
    /\ pc = "parameters"
    /\ lookup' = answer
    /\ calls' = Append(calls, "describe_stacks")
    /\ LET r == _parameters(answer)
       IN  IF r.raises # None /\ ~Caught(r.raises)
           THEN /\ error' = r.raises
                /\ pc' = "raised"
                /\ UNCHANGED <<previous_params, definition>>
           ELSE /\ previous_params' = IF r.raises = None THEN r.value ELSE <<>>
                /\ definition' = StackDefinition(
                                    args.name, template_url,
                                    update_params(_template(args.template).parameters,
                                                  args.parameter, previous_params'),
                                    args.capability)
                /\ error' = error
                /\ pc' = "submit"
    /\ UNCHANGED <<clock, tailVars, rcVars, qryVars, pubVars, args, s3, template_url, submitted>>

\* as Submit, but create_stack is called whatever the command
Submit_AlwaysCreate ==
    /\ pc = "submit"
    /\ submitted' = Append(submitted, [call |-> "create_stack", request |-> definition])
    /\ calls' = Append(calls, "create_stack")
    /\ pc' = "if_tail"
    /\ UNCHANGED <<error, clock, tailVars, rcVars, qryVars, pubVars,
                   args, s3, template_url, previous_params, definition, lookup>>

\* clients['cloudformation'].create_stack(**definition), or update_stack
Submit ==
    /\ pc = "submit"
    /\ LET call == IF args.command = "create" THEN "create_stack" ELSE "update_stack"
       IN  /\ submitted' = Append(submitted, [call |-> call, request |-> definition])
           /\ calls' = Append(calls, call)
    /\ pc' = "if_tail"
    /\ UNCHANGED <<error, clock, tailVars, rcVars, qryVars, pubVars,
                   args, s3, template_url, previous_params, definition, lookup>>

SubmitRaises ==
    /\ pc = "submit"
    /\ LET call == IF args.command = "create" THEN "create_stack" ELSE "update_stack"
       IN  /\ submitted' = Append(submitted, [call |-> call, request |-> definition])
           /\ calls' = Append(calls, call)
    /\ error' = "ClientError"
    /\ pc' = "raised"
    /\ UNCHANGED <<clock, tailVars, rcVars, qryVars, pubVars,
                   args, s3, template_url, previous_params, definition, lookup>>

\* as IfTail, but the events are shown whatever the --tail flag
IfTail_Always ==
    /\ pc = "if_tail"
    /\ pc' = "tail_start"
    /\ UNCHANGED <<error, calls, clock, tailVars, rcVars, qryVars, pubVars, depVars>>

\* if tail: _events(args[0], kwargs['name'])
IfTail ==
    /\ pc = "if_tail"
    /\ pc' = IF args.tail THEN "tail_start" ELSE "returned"
    /\ UNCHANGED <<error, calls, clock, tailVars, rcVars, qryVars, pubVars, depVars>>

(* One create or update run: any arguments, any answers of the services *)

\* the statuses and event lists the tail of a deploy run is given
DeployStatuses   == {"CREATE_IN_PROGRESS", "CREATE_COMPLETE"}
DeployEventLists == {<<>>, <<"e3">>}

InitDeploy ==
    /\ pc = "template"
    /\ error = None
    /\ calls = <<>>
    /\ clock = 3
    /\ TailIdle
    /\ RcIdle
    /\ args \in [command    : {"create", "update"},
                 template   : TemplatePaths,
                 name       : StackNames,
                 parameter  : DeployOverrides,
                 capability : Capabilities \cup {None},
                 bucket     : Buckets,
                 tail       : BOOLEAN]
    /\ s3 = <<>>
    /\ template_url = <<>>
    /\ previous_params = <<>>
    /\ definition = <<>>
    /\ lookup = <<>>
    /\ submitted = <<>>
    /\ location \in Locations
    /\ publishes = <<>>
    /\ echoed = <<>>

NextDeploy ==
    \/ LoadTemplate
    \/ PutObject
    \/ PutObjectRaises
    \/ GetBucketLocation(location)
    \/ GetBucketLocationRaises
    \/ \E a \in DescribeAnswers : LookupAndBuild(a)
    \/ Submit
    \/ SubmitRaises
    \/ IfTail
    \/ TailStart
    \/ \E s \in DeployStatuses : DescribeStacks(s)
    \/ DescribeStacksRaises
    \/ \E ids \in DeployEventLists : DescribeStackEvents(ids)
    \/ DescribeStackEventsRaises
    \/ ForEvents
    \/ IfComplete
    \/ Sleep

SpecDeploy == InitDeploy /\ [][NextDeploy]_vars

(* The publisher over successive runs: each run of create / update uploads *)
(* its template; the bucket outlives the runs                              *)

PublishArgs ==
    [command    : {"create"},
     template   : DOMAIN Modules,
     name       : StackNames,
     parameter  : {<<>>},
     capability : {None},
     bucket     : Buckets,
     tail       : {FALSE}]

\* cli.main() of the next run: upload_template_to_s3 has returned or raised
NextInvocation(a) ==
    /\ pc \in {"parameters", "raised"}
    /\ Len(publishes) < MaxPublishes
    /\ args' = a
    /\ pc' = "put_object"
    /\ error' = None
    /\ calls' = <<>>
    /\ template_url' = <<>>
    /\ UNCHANGED <<clock, tailVars, rcVars, qryVars, pubVars,
                   s3, previous_params, definition, lookup, submitted>>

InitPublish ==
    /\ pc = "put_object"
    /\ error = None
    /\ calls = <<>>
    /\ clock = 3
    /\ TailIdle
    /\ RcIdle
    /\ args \in PublishArgs
    /\ s3 = <<>>
    /\ template_url = <<>>
    /\ previous_params = <<>>
    /\ definition = <<>>
    /\ lookup = <<>>
    /\ submitted = <<>>
    /\ location \in Locations
    /\ publishes = <<>>
    /\ echoed = <<>>

NextPublish ==
    \/ PutObject
    \/ PutObjectRaises
    \/ GetBucketLocation(location)
    \/ GetBucketLocationRaises
    \/ \E a \in PublishArgs : NextInvocation(a)

SpecPublish == InitPublish /\ [][NextPublish]_vars

(* The commands that look a stack up by name: events, outputs, parameters *)

OutputLists == {<<>>,
                << [OutputKey |-> "Url",  OutputValue |-> "u"],
                   [OutputKey |-> "Role", OutputValue |-> "r"] >>}

OutputKeys == {None, "Role", "Other"}

\* what describe_stacks may answer to outputs: an exception, or a stack
\* with, when it has outputs, the list of them
OutputAnswers ==
    {[exception |-> "ClientError", code |-> "ValidationError"],
     [exception |-> "ClientError", code |-> "Throttling"],
     [exception |-> "EndpointConnectionError", code |-> None]}
    \cup [StackStatus : {"CREATE_COMPLETE"}]
    \cup [StackStatus : {"CREATE_COMPLETE"}, Outputs : OutputLists]

\* the loop of outputs: with --key, the value of the first output of that
\* key and nothing else; without, one line per output
RECURSIVE OutputLines(_, _)
OutputLines(list, key) ==
    IF list = <<>> THEN <<>>
    ELSE LET output == Head(list)
         IN  IF key # None
             THEN IF output.OutputKey = key
                  THEN << <<output.OutputValue>> >>
                  ELSE OutputLines(Tail(list), key)
             ELSE << <<output.OutputKey, ":", output.OutputValue>> >>
                      \o OutputLines(Tail(list), key)

\* the loop of parameters: one line per item of the dict
ParameterLines(list) ==
    LET d == DictFromPairs([i \in DOMAIN list |->
                               <<list[i].ParameterKey, list[i].ParameterValue>>])
    IN  [i \in DOMAIN d.keys |-> <<d.keys[i], ":", d.val[d.keys[i]]>>]

\* the message of parameters for a stack that does not exist, with its name
DoesNotExist(name) == <<"Stack ", name, " does not exist.">>

\* the command outputs: describe_stacks(...).get('Stacks')[0].get('Outputs'),
\* then the loop; nothing is caught
Outputs(answer) ==
    /\ pc = "outputs"
    /\ lookup' = answer
    /\ calls' = Append(calls, "describe_stacks")
    /\ IF "exception" \in DOMAIN answer
       THEN error' = answer.exception /\ pc' = "raised" /\ echoed' = echoed
       ELSE IF "Outputs" \notin DOMAIN answer
       THEN error' = "TypeError" /\ pc' = "raised" /\ echoed' = echoed
       ELSE /\ echoed' = echoed \o OutputLines(answer.Outputs, args.key)
            /\ error' = error
            /\ pc' = "returned"
    /\ UNCHANGED <<clock, tailVars, rcVars, pubVars,
                   args, s3, template_url, previous_params, definition, submitted>>

\* the command parameters: the loop over _parameters(...) in a try that
\* catches ClientError and AssertionError
Parameters(answer) ==
    /\ pc = "parameters_command"
    /\ lookup' = answer
    /\ calls' = Append(calls, "describe_stacks")
    /\ LET r == _parameters(answer)
       IN  IF r.raises = None
           THEN /\ echoed' = echoed \o ParameterLines(answer.Parameters)
                /\ error' = error
                /\ pc' = "returned"
           ELSE IF Caught(r.raises)
           THEN /\ echoed' = Append(echoed, DoesNotExist(args.name))
                /\ error' = error
                /\ pc' = "returned"
           ELSE /\ error' = r.raises
                /\ pc' = "raised"
                /\ echoed' = echoed
    /\ UNCHANGED <<clock, tailVars, rcVars, pubVars,
                   args, s3, template_url, previous_params, definition, submitted>>

InitQuery ==
    /\ error = None
    /\ calls = <<>>
    /\ clock = 3
    /\ TailIdle
    /\ RcIdle
    /\ \/ /\ args \in [command : {"events"}, name : StackNames]
          /\ pc = "tail_start"
       \/ /\ args \in [command : {"outputs"}, name : StackNames, key : OutputKeys]
          /\ pc = "outputs"
       \/ /\ args \in [command : {"parameters"}, name : StackNames]
          /\ pc = "parameters_command"
    /\ s3 = <<>>
    /\ template_url = <<>>
    /\ previous_params = <<>>
    /\ definition = <<>>
    /\ lookup = <<>>
    /\ submitted = <<>>
    /\ location = None
    /\ publishes = <<>>
    /\ echoed = <<>>

NextQuery ==
    \/ \E a \in OutputAnswers : Outputs(a)
    \/ \E a \in DescribeAnswers : Parameters(a)
    \/ TailStart
    \/ \E s \in DeployStatuses : DescribeStacks(s)
    \/ DescribeStacksRaises
    \/ \E ids \in DeployEventLists : DescribeStackEvents(ids)
    \/ DescribeStackEventsRaises
    \/ ForEvents
    \/ IfComplete
    \/ Sleep

SpecQuery == InitQuery /\ [][NextQuery]_vars

(* The `events` command: one tail session, any statuses and event lists *)

InitTail ==
    /\ pc = "tail_start"
    /\ error = None
    /\ calls = <<>>
    /\ clock \in StartTimes
    /\ TailIdle
    /\ RcIdle
    /\ DepIdle

NextTail ==
    \/ TailStart
    \/ \E s \in Range(STATUSES) : DescribeStacks(s)
    \/ DescribeStacksRaises
    \/ \E ids \in EventLists : DescribeStackEvents(ids)
    \/ DescribeStackEventsRaises
    \/ ForEvents
    \/ IfComplete
    \/ Sleep

SpecTail == InitTail /\ [][NextTail]_vars

(* A tail session whose event lists are delivered most-recent-first *)

MostRecentFirst(ids) ==
    \A i, j \in DOMAIN ids :
        i < j => Event(ids[i]).Timestamp >= Event(ids[j]).Timestamp

NextTailOrdered ==
    \/ TailStart
    \/ \E s \in Range(STATUSES) : DescribeStacks(s)
    \/ DescribeStacksRaises
    \/ \E ids \in {l \in EventLists : MostRecentFirst(l)} : DescribeStackEvents(ids)
    \/ DescribeStackEventsRaises
    \/ ForEvents
    \/ IfComplete
    \/ Sleep

SpecTailOrdered == InitTail /\ [][NextTailOrdered]_vars

(* A tail session in which no call fails.  _events is one thread that runs  *)
(* each statement as soon as the one before it has finished, and a call    *)
(* that does not fail returns: the steps of the loop are weakly fair.      *)
(* The exit of the loop does not depend on the events, so the lists are    *)
(* the few of the deploy runs; the statuses are all sixteen.               *)

NextTailNoFailure ==
    \/ TailStart
    \/ \E s \in Range(STATUSES) : DescribeStacks(s)
    \/ \E ids \in DeployEventLists : DescribeStackEvents(ids)
    \/ ForEvents
    \/ IfComplete
    \/ Sleep

SpecTailFair ==
    /\ InitTail
    /\ [][NextTailNoFailure]_vars
    /\ WF_vars(NextTailNoFailure)

----------------------------------------------------------------------------
(* Properties of the event tailer *)

\* the positions of the lines echoed for an event id
LinesOf(id) == {i \in DOMAIN emitted : emitted[i].event_id = id}

\* the event is not older than the session start minus two seconds
InWindow(id) == Event(id).Timestamp >= now - 2

\* some poll has returned the event and the pass of that poll is over
PassOver(id) == first[id] # 0 /\ (first[id] < poll \/ pc # "for_events")

Count(s, x) == Cardinality({i \in DOMAIN s : s[i] = x})

\* C1: no event id is echoed twice in a session, and every event id in
\* the window that some poll has returned is echoed exactly once, in the pass
\* of the first poll that returned it.
C1_EmittedExactlyOnce ==
    /\ \A id \in EventIds : Cardinality(LinesOf(id)) <= 1
    /\ \A id \in EventIds :
          (PassOver(id) /\ InWindow(id)) =>
              /\ Cardinality(LinesOf(id)) = 1
              /\ \A i \in LinesOf(id) : emitted[i].poll = first[id]

\* the second poll repeats an event of the first poll and adds a new one
C1_Witness ==
    /\ pc = "if_complete"
    /\ poll = 2
    /\ Len(events) = 2
    /\ \E i, j \in DOMAIN events :
          /\ first[events[i].EventId] = 1
          /\ first[events[j].EventId] = 2
          /\ InWindow(events[i].EventId)
          /\ InWindow(events[j].EventId)
    /\ Len(emitted) = 2

\* C2: an event older than the session start minus two seconds is never
\* echoed, an event exactly two seconds older than the start is echoed, and
\* the session start does not change once the session has captured it.
C2_TimeWindow ==
    /\ [](/\ \A i \in DOMAIN emitted :
                ~(Event(emitted[i].event_id).Timestamp < now - 2)
          /\ \A id \in EventIds :
                (PassOver(id) /\ Event(id).Timestamp = now - 2) => LinesOf(id) # {})
    /\ [][pc # "tail_start" => now' = now]_vars

\* the first poll returns an event that is too old and one exactly at the edge
C2_Witness ==
    /\ pc = "if_complete"
    /\ poll = 1
    /\ \E i, j \in DOMAIN events :
          /\ events[i].Timestamp < now - 2
          /\ events[j].Timestamp = now - 2
          /\ LinesOf(events[i].EventId) = {}
          /\ LinesOf(events[j].EventId) # {}

\* C3: in every pass the events are fetched and echoed before the status
\* is tested; a status that ends with COMPLETE ends the session with no sleep
\* and no further call; any other status is followed by exactly one sleep and
\* then the next poll.
C3_StopOnComplete ==
    /\ [](pc \in {"if_complete", "sleep", "returned"} =>
            /\ Count(calls, "describe_stacks") = poll
            /\ Count(calls, "describe_stack_events") = poll
            /\ \A i \in DOMAIN events :
                  InWindow(events[i].EventId) => LinesOf(events[i].EventId) # {})
    /\ [](pc \in {"if_complete", "returned"} =>
            /\ calls[Len(calls)] = "describe_stack_events"
            /\ Count(calls, "sleep") = poll - 1)
    /\ [][/\ (pc = "if_complete" /\ EndsWithComplete(status)) =>
                (pc' = "returned" /\ calls' = calls /\ error' = error)
          /\ (pc = "if_complete" /\ ~EndsWithComplete(status)) => pc' = "sleep"
          /\ pc = "sleep" =>
                (pc' = "describe_stacks" /\ calls' = Append(calls, "sleep"))
          /\ pc = "returned" => UNCHANGED vars]_vars

\* the second poll is the first with a COMPLETE status; its new event is echoed
C3_Witness ==
    /\ pc = "returned"
    /\ poll = 2
    /\ EndsWithComplete(status)
    /\ \E i \in DOMAIN emitted : emitted[i].poll = 2
    /\ Count(calls, "sleep") = 1

\* C12: when describe_stacks fails on a poll the session ends with that
\* failure: describe_stack_events is not called on that poll, no line is
\* echoed, nothing sleeps and nothing polls after it.
C12_DescribeFailureEndsSession ==
    /\ [][(pc = "describe_stacks" /\ error' # None) =>
             /\ pc' = "raised"
             /\ calls' = Append(calls, "describe_stacks")
             /\ emitted' = emitted]_vars
    /\ [][(pc = "describe_stacks" /\ pc' = "describe_stack_events") =>
             (error' = None /\ status' \in Range(STATUSES))]_vars
    /\ [][pc = "raised" => UNCHANGED vars]_vars
    /\ [](pc = "raised" => error # None)
    /\ []((pc = "raised" /\ calls[Len(calls)] = "describe_stacks") =>
             Count(calls, "describe_stack_events") = poll - 1)

\* the second poll's describe_stacks failed after the first pass echoed a line
C12_Witness ==
    /\ pc = "raised"
    /\ poll = 2
    /\ calls[Len(calls)] = "describe_stacks"
    /\ Count(calls, "describe_stack_events") = 1
    /\ Len(emitted) = 1

\* C14: with no failing call, the session returns only from a poll whose
\* status ends with COMPLETE, and a poll with such a status is followed by
\* the return; a poll with any other status is followed by one sleep and the
\* next poll, whatever the number of polls so far (MaxPolls only bounds the
\* model).
C14_TerminatesIffComplete ==
    /\ [](pc = "returned" => EndsWithComplete(status))
    /\ (pc = "describe_stack_events" /\ EndsWithComplete(status)) ~> (pc = "returned")
    /\ \A n \in 1..(MaxPolls - 1) :
          (pc = "describe_stack_events" /\ poll = n /\ ~EndsWithComplete(status))
              ~> (pc = "describe_stack_events" /\ poll = n + 1)
    /\ [][(pc = "sleep") => (pc' = "describe_stacks")]_vars

\* the last poll the model allows is the first with a COMPLETE status
C14_Witness ==
    /\ pc = "returned"
    /\ poll = MaxPolls
    /\ Count(calls, "sleep") = MaxPolls - 1
    /\ EndsWithComplete(status)

\* the pass of the current poll is over
AfterPass == pc \in {"if_complete", "sleep", "returned"}

\* the event ids some poll has returned so far
Returned == {id \in EventIds : first[id] # 0}

\* C16 as claimed: after each pass, seen is the set of all event ids
\* returned by any poll so far, those skipped as too old included.
C16_SeenIsAllReturned ==
    AfterPass => seen = Returned

\* C16 as amended: after each pass, seen is the set of the event ids
\* returned so far that are not older than the session start minus two
\* seconds; an event skipped as too old is not in seen.
C16_SeenIsReturnedInWindow ==
    AfterPass => seen = {id \in Returned : InWindow(id)}

\* a pass that returned an event in the window and one that is too old
C16_Witness ==
    /\ AfterPass
    /\ seen # {}
    /\ \E id \in Returned : ~InWindow(id) /\ id \notin seen

Stamp(i) == Event(emitted[i].event_id).Timestamp

\* C17 as claimed: with every list delivered most-recent-first, the
\* lines of a session are in non-decreasing timestamp order, within a pass
\* and across passes.
C17_ChronologicalOrder ==
    \A i, j \in DOMAIN emitted : i < j => Stamp(i) <= Stamp(j)

\* C17 as amended: with every list delivered most-recent-first, the
\* lines echoed in one pass are in non-decreasing timestamp order and follow
\* the lines of the passes before; a line of a later pass may be older than
\* a line already echoed.
C17_ChronologicalWithinPass ==
    \A i, j \in DOMAIN emitted :
        i < j =>
            /\ emitted[i].poll <= emitted[j].poll
            /\ emitted[i].poll = emitted[j].poll => Stamp(i) <= Stamp(j)

\* two lines of the first pass in order, then an older line of the second
C17_Witness ==
    /\ pc = "if_complete"
    /\ Len(emitted) = 3
    /\ emitted[1].poll = 1
    /\ emitted[2].poll = 1
    /\ emitted[3].poll = 2
    /\ Stamp(1) < Stamp(2)
    /\ Stamp(3) < Stamp(2)

Terminal == {"CREATE_COMPLETE", "ROLLBACK_COMPLETE", "DELETE_COMPLETE",
             "UPDATE_COMPLETE", "UPDATE_ROLLBACK_COMPLETE"}

\* C18: of the 16 statuses exactly CREATE_COMPLETE, ROLLBACK_COMPLETE,
\* DELETE_COMPLETE, UPDATE_COMPLETE and UPDATE_ROLLBACK_COMPLETE end the loop;
\* every other status, the two *_COMPLETE_CLEANUP_IN_PROGRESS included, is
\* followed by the sleep; the session returns with no error whichever of the
\* five ended it.
C18_SuffixTest ==
    /\ [](Len(STATUSES) = 16 /\ Terminal \subseteq Range(STATUSES))
    /\ [](pc \in {"if_complete", "sleep", "returned"} => status \in Range(STATUSES))
    /\ [][(pc = "if_complete" /\ status \in Terminal) =>
             (pc' = "returned" /\ error' = None)]_vars
    /\ [][(pc = "if_complete" /\ status \notin Terminal) => (pc' = "sleep")]_vars
    /\ [](pc = "returned" => (status \in Terminal /\ error = None))

\* a poll with a cleanup status went on to sleep and the next poll ended the
\* session with a rollback status
C18_Witness ==
    /\ pc = "returned"
    /\ poll = 2
    /\ status = "UPDATE_ROLLBACK_COMPLETE"
    /\ error = None

----------------------------------------------------------------------------
(* Properties of create / update *)

\* get_stack_definition has built the request
Built == DOMAIN definition # {}

\* the lookup found no stack: describe_stacks failed with "does not exist",
\* or answered a stack in DELETE_COMPLETE
NoStack(answer) ==
    \/ /\ "exception" \in DOMAIN answer
       /\ answer.exception = "ClientError"
       /\ answer.code = "ValidationError"
    \/ /\ "StackStatus" \in DOMAIN answer
       /\ answer.StackStatus = "DELETE_COMPLETE"

\* C8: the request built has the stack name, the template URL and the
\* reconciled parameters; with no capability selected it has no Capabilities
\* field, with one selected Capabilities is the list of that one capability.
C8_CapabilityField ==
    Built =>
        /\ {"StackName", "TemplateURL", "Parameters"} \subseteq DOMAIN definition
        /\ definition.StackName = args.name
        /\ definition.TemplateURL = template_url
        /\ definition.Parameters =
               update_params(_template(args.template).parameters,
                             args.parameter, previous_params)
        /\ args.capability = None => "Capabilities" \notin DOMAIN definition
        /\ args.capability # None =>
               /\ "Capabilities" \in DOMAIN definition
               /\ definition.Capabilities = <<args.capability>>

\* a request with parameters and no capability has been submitted
C8_Witness ==
    /\ pc = "if_tail"
    /\ args.capability = None
    /\ Len(submitted) = 1
    /\ submitted[1].request.Parameters # <<>>
    /\ "Capabilities" \notin DOMAIN submitted[1].request

\* C9: no request submitted by create has a parameter with
\* UsePreviousValue true, and none has an entry for a declared name that has
\* no override.
C9_CreateNeverUsesPrevious ==
    \A i \in DOMAIN submitted :
        submitted[i].call = "create_stack" =>
            LET ps         == submitted[i].request.Parameters
                declared   == Range(_template(args.template).parameters)
                overridden == {args.parameter[j][1] : j \in DOMAIN args.parameter}
            IN  \A j \in DOMAIN ps :
                    /\ ps[j].UsePreviousValue = FALSE
                    /\ ps[j].ParameterKey \notin declared \ overridden

\* C10: when the lookup finds no stack, or a stack in DELETE_COMPLETE,
\* nothing is raised: previous is the empty dict, the request is built from
\* it, and the next step submits that request.
C10_NoStackIsEmptyPrevious ==
    /\ [][(pc = "parameters" /\ NoStack(lookup')) =>
             /\ pc' = "submit"
             /\ error' = None
             /\ DOMAIN previous_params' = {}
             /\ Built'
             /\ definition'.Parameters =
                    update_params(_template(args.template).parameters,
                                  args.parameter, <<>>)]_vars
    /\ [][pc = "submit" =>
             /\ Len(submitted') = Len(submitted) + 1
             /\ submitted'[Len(submitted')].request = definition]_vars

\* a deleted stack that still lists a parameter of the template; the run went
\* on to submit a request without it
C10_Witness ==
    /\ pc = "if_tail"
    /\ "StackStatus" \in DOMAIN lookup
    /\ lookup.StackStatus = "DELETE_COMPLETE"
    /\ "Parameters" \in DOMAIN lookup
    /\ lookup.Parameters # <<>>
    /\ _template(args.template).parameters # <<>>
    /\ Len(submitted) = 1
    /\ submitted[1].request.Parameters = <<>>

\* C11: a failure of put_object, of get_bucket_location, of create_stack
\* / update_stack, or of the lookup's describe_stacks other than "does not
\* exist", ends the run with that failure: nothing is submitted after it.
C11_OtherFailuresSurface ==
    /\ error # None => pc = "raised"
    /\ ("exception" \in DOMAIN lookup /\ ~NoStack(lookup)) =>
           /\ pc = "raised"
           /\ error = lookup.exception
           /\ submitted = <<>>

Mutating == {"create_stack", "update_stack"}

\* the call of the command: create_stack for create, update_stack for update
CommandCall == IF args.command = "create" THEN "create_stack" ELSE "update_stack"

\* C13: the calls of a run are, in this order, put_object,
\* get_bucket_location, the lookup's describe_stacks, the one create_stack or
\* update_stack of the command and, only with --tail, the calls of the tail
\* session, which are describe_stacks and describe_stack_events (and the
\* local clock and sleep); a run that returns has made one put_object and one
\* mutating call.
C13_CallOrder ==
    /\ \A i \in DOMAIN calls :
          /\ i = 1 => calls[i] = "put_object"
          /\ i = 2 => calls[i] = "get_bucket_location"
          /\ i = 3 => calls[i] = "describe_stacks"
          /\ i = 4 => calls[i] = CommandCall
          /\ i = 5 => (calls[i] = "utcnow" /\ args.tail)
          /\ i > 5 => calls[i] \in {"describe_stacks", "describe_stack_events", "sleep"}
    /\ Len(submitted) = Count(calls, "create_stack") + Count(calls, "update_stack")
    /\ pc \in {"if_tail", "returned"} =>
          /\ Count(calls, "put_object") = 1
          /\ Count(calls, "create_stack") + Count(calls, "update_stack") = 1
          /\ Len(submitted) = 1
          /\ submitted[1].call = CommandCall
          /\ DOMAIN s3 = {<<args.bucket, TemplateKey(args.name)>>}

\* an update with --tail that returned after two polls
C13_Witness ==
    /\ pc = "returned"
    /\ args.command = "update"
    /\ args.tail
    /\ poll = 2
    /\ Len(calls) = 10

\* C20: the tail session starts only after create_stack / update_stack
\* has returned without an exception and only with --tail: the session start
\* is read from the clock after the submit, and a run without --tail, or one
\* that failed at or before the submit, never calls describe_stack_events.
C20_TailOnlyAfterSubmit ==
    /\ [](\A i \in DOMAIN calls :
             calls[i] \in {"utcnow", "describe_stack_events"} =>
                 /\ args.tail
                 /\ \E j \in 1..(i - 1) : calls[j] \in Mutating)
    /\ [][(pc # "tail_start" /\ pc' = "tail_start") =>
             (pc = "if_tail" /\ error = None /\ args.tail /\ now = 0)]_vars
    /\ [][(pc # "if_tail" /\ pc' = "if_tail") =>
             (pc = "submit" /\ error' = None /\ Len(submitted') = 1)]_vars
    /\ [][(pc = "submit" /\ error' # None) => pc' = "raised"]_vars
    /\ [][(pc = "if_tail" /\ args.tail = FALSE) => (pc' = "returned")]_vars
    /\ [][(pc = "raised" \/ pc = "returned") => UNCHANGED vars]_vars

\* a run with --tail whose first poll has echoed a line
C20_Witness ==
    /\ pc = "if_complete"
    /\ args.tail
    /\ poll = 1
    /\ Len(submitted) = 1
    /\ Len(emitted) = 1
    /\ now = 3

\* the last put_object of a stack name into a bucket
LastPublish(name, bucket) ==
    LET is == {i \in DOMAIN publishes :
                  publishes[i].name = name /\ publishes[i].bucket = bucket}
    IN  CHOOSE i \in is : \A j \in is : j <= i

\* C19: after any sequence of publishes the bucket holds, for each stack
\* name published, one blob, under the key "<stack_name>.template", with the
\* bytes of the last template published for that name; two publishes of the
\* same template for the same stack return the same URL; a publish leaves
\* the blobs of the other stack names as they were.
C19_OneBlobPerStack ==
    /\ [](DOMAIN s3 = {<<publishes[i].bucket, <<publishes[i].name, ".template">>>> :
                          i \in DOMAIN publishes})
    /\ [](\A i \in DOMAIN publishes :
             i = LastPublish(publishes[i].name, publishes[i].bucket) =>
                 s3[<<publishes[i].bucket, <<publishes[i].name, ".template">>>>]
                     = <<"utf-8", <<"{Parameters:",
                                    Modules[publishes[i].template].parameters, "}">>>>)
    /\ [](\A i, j \in DOMAIN publishes :
             (/\ publishes[i].name = publishes[j].name
              /\ publishes[i].bucket = publishes[j].bucket
              /\ publishes[i].template = publishes[j].template
              /\ publishes[i].url # <<>>
              /\ publishes[j].url # <<>>) => publishes[i].url = publishes[j].url)
    /\ [][\A k \in DOMAIN s3 :
             k # <<args.bucket, <<args.name, ".template">>>> =>
                 (k \in DOMAIN s3' /\ s3'[k] = s3[k])]_vars

\* web published, then db, then web again with another template
C19_Witness ==
    /\ pc = "parameters"
    /\ Len(publishes) = 3
    /\ publishes[1].name = publishes[3].name
    /\ publishes[1].name # publishes[2].name
    /\ publishes[1].template # publishes[3].template
    /\ Cardinality(DOMAIN s3) = 2
    /\ publishes[3].url = publishes[1].url

\* describe_stacks answered that the stack does not exist
NotFound(answer) ==
    /\ "exception" \in DOMAIN answer
    /\ answer.exception = "ClientError"
    /\ answer.code = "ValidationError"

\* C15: events, outputs and parameters, run for a stack that does not
\* exist, echo the message and return; none of them ends with the failure
\* of describe_stacks.
C15_NotFoundIsAMessage ==
    /\ (args.command \in {"outputs", "parameters"} /\ NotFound(lookup)) =>
           /\ pc = "returned"
           /\ error = None
           /\ echoed = <<DoesNotExist(args.name)>>
    /\ (args.command = "events" /\ poll = 1) => error # "ClientError"

----------------------------------------------------------------------------
(* The reconciler on its own: every input within the bounds, then the call *)

RcInit ==
    /\ rc_in \in [template : Templates, params : Overrides, previous : Previous]
    /\ rc_out = <<>>
    /\ rc_pc = "call"

Reconcile ==
    /\ rc_pc = "call"
    /\ rc_out' = update_params(rc_in.template, rc_in.params, rc_in.previous)
    /\ rc_pc' = "return"
    /\ UNCHANGED rc_in
    /\ UNCHANGED <<ctlVars, tailVars, depVars, pubVars, qryVars>>

InitReconcile ==
    /\ RcInit
    /\ CtlIdle
    /\ TailIdle
    /\ DepIdle

NextReconcile == Reconcile

SpecReconcile == InitReconcile /\ [][NextReconcile]_vars

----------------------------------------------------------------------------
(* Properties of update_params *)

Declared     == Range(rc_in.template)
OverrideKeys == {rc_in.params[i][1] : i \in DOMAIN rc_in.params}
HasPrevious  == DOMAIN rc_in.previous

\* the positions of the entries for key k in the returned list
Entries(k) == {i \in DOMAIN rc_out : rc_out[i].ParameterKey = k}

\* the value of the last override given for key k
LastOverride(k) ==
    LET last == CHOOSE i \in DOMAIN rc_in.params :
                    /\ rc_in.params[i][1] = k
                    /\ \A j \in DOMAIN rc_in.params : rc_in.params[j][1] = k => j <= i
    IN  rc_in.params[last][2]

\* the position of a declared name in template.parameters
DeclaredAt(k) == CHOOSE i \in DOMAIN rc_in.template : rc_in.template[i] = k

\* C4: a declared name with no override and no entry in previous has no
\* entry in the returned list; with previous empty and no overrides the
\* returned list is empty.
C4_OmitUnsetWithoutPrevious ==
    rc_pc = "return" =>
        /\ \A k \in Declared \ (OverrideKeys \cup HasPrevious) : Entries(k) = {}
        /\ (HasPrevious = {} /\ OverrideKeys = {}) => rc_out = <<>>

C4_Witness ==
    /\ rc_pc = "return"
    /\ Declared \ (OverrideKeys \cup HasPrevious) # {}
    /\ Declared \cap HasPrevious # {}
    /\ rc_out # <<>>

\* C5: a declared name with no override and an entry in previous has
\* exactly one entry in the returned list, with UsePreviousValue true and no
\* ParameterValue field.
C5_ReusePrevious ==
    rc_pc = "return" =>
        \A k \in (Declared \cap HasPrevious) \ OverrideKeys :
            /\ Cardinality(Entries(k)) = 1
            /\ \A i \in Entries(k) :
                   /\ rc_out[i].UsePreviousValue = TRUE
                   /\ "ParameterValue" \notin DOMAIN rc_out[i]

C5_Witness ==
    /\ rc_pc = "return"
    /\ (Declared \cap HasPrevious) \ OverrideKeys # {}
    /\ OverrideKeys # {}
    /\ \E i \in DOMAIN rc_out : rc_out[i].UsePreviousValue

\* C6: every key that occurs in the overrides, declared or not, with or
\* without an entry in previous, has exactly one entry in the returned list:
\* the value of the last override for that key, UsePreviousValue false.
C6_OverrideWins ==
    rc_pc = "return" =>
        \A k \in OverrideKeys :
            /\ Cardinality(Entries(k)) = 1
            /\ \A i \in Entries(k) :
                   /\ "ParameterValue" \in DOMAIN rc_out[i]
                   /\ rc_out[i].ParameterValue = LastOverride(k)
                   /\ rc_out[i].UsePreviousValue = FALSE

\* an undeclared key with a previous value, overridden twice with two values
C6_Witness ==
    /\ rc_pc = "return"
    /\ Len(rc_in.params) = 2
    /\ rc_in.params[1][1] = rc_in.params[2][1]
    /\ rc_in.params[1][2] # rc_in.params[2][2]
    /\ rc_in.params[1][1] \in HasPrevious \ Declared
    /\ \E i \in DOMAIN rc_out :
           /\ rc_out[i].ParameterKey = rc_in.params[2][1]
           /\ "ParameterValue" \in DOMAIN rc_out[i]
           /\ rc_out[i].ParameterValue = rc_in.params[2][2]

\* C7: the returned list has the declared names first, in declared
\* order, and the override-only keys after them; overriding a declared name
\* does not move it.
C7_DeclaredOrderFirst ==
    rc_pc = "return" =>
        \A i, j \in DOMAIN rc_out :
            (i < j /\ rc_out[j].ParameterKey \in Declared) =>
                /\ rc_out[i].ParameterKey \in Declared
                /\ DeclaredAt(rc_out[i].ParameterKey) < DeclaredAt(rc_out[j].ParameterKey)

\* two declared names, the first overridden after an override-only key
C7_Witness ==
    /\ rc_pc = "return"
    /\ Len(rc_in.template) = 2
    /\ Len(rc_in.params) = 2
    /\ rc_in.params[1][1] \notin Declared
    /\ rc_in.params[2][1] = rc_in.template[1]
    /\ Len(rc_out) = 3
    /\ rc_out[1].ParameterKey = rc_in.template[1]
    /\ rc_out[3].ParameterKey = rc_in.params[1][1]

====
